---- MODULE Spec2Model ----
(***************************************************************************)
(* Model of the slurm node collector (node.go): one scrape cycle runs      *)
(* NodeData, ParseNodeMetrics and the emission loop of Collect.            *)
(* Text is a sequence of one-character strings; the byte order of the      *)
(* characters is their position in Alphabet.                               *)
(***************************************************************************)
EXTENDS Integers, Sequences, FiniteSets, TLC

\* ------------------------------------------------------------------------
\* Bounds of the model
\* ------------------------------------------------------------------------
MaxLines == 2
MaxCycles == 2
NumGpus == 3

\* ------------------------------------------------------------------------
\* Characters and text
\* ------------------------------------------------------------------------
\* The characters used, in ascending byte (ASCII) order.
Alphabet ==
  << "\n", " ", "(", ")", "+", ",", "-", "/",
     "0", "1", "2", "3", "4", "5", "6", "7", "8", "9", ":",
     "A", "D", "I", "N", "X",
     "a", "b", "d", "e", "g", "i", "k", "l", "m", "n", "p", "u", "x" >>

Ord(c) == CHOOSE i \in 1..Len(Alphabet) : Alphabet[i] = c

Digits == << "0", "1", "2", "3", "4", "5", "6", "7", "8", "9" >>

IsDigit(c) == \E i \in 1..10 : Digits[i] = c

DigitVal(c) == (CHOOSE i \in 1..10 : Digits[i] = c) - 1

\* whitespace as seen by strings.Fields (unicode.IsSpace), within Alphabet
IsSpace(c) == c \in {" ", "\n"}

Range(s) == { s[i] : i \in 1..Len(s) }

\* byte-wise string comparison a < b, as sort.Strings uses
RECURSIVE StrLess(_, _)
StrLess(a, b) ==
  IF b = <<>> THEN FALSE
  ELSE IF a = <<>> THEN TRUE
  ELSE IF Head(a) = Head(b) THEN StrLess(Tail(a), Tail(b))
  ELSE Ord(Head(a)) < Ord(Head(b))

\* strings.Split(s, sep) for a one-character sep: the pieces between the
\* separators, empty pieces kept; Split("", sep) is [""].
RECURSIVE Split(_, _)
Split(s, sep) ==
  IF \A i \in 1..Len(s) : s[i] # sep THEN << s >>
  ELSE LET k == CHOOSE i \in 1..Len(s) :
                   s[i] = sep /\ \A j \in 1..(i - 1) : s[j] # sep
       IN  << SubSeq(s, 1, k - 1) >> \o Split(SubSeq(s, k + 1, Len(s)), sep)

\* strings.Fields(s): the maximal runs of non-space characters.
RECURSIVE Fields(_)
Fields(s) ==
  IF \A i \in 1..Len(s) : IsSpace(s[i]) THEN << >>
  ELSE LET b == CHOOSE i \in 1..Len(s) :
                   ~IsSpace(s[i]) /\ \A j \in 1..(i - 1) : IsSpace(s[j])
           e == CHOOSE i \in b..Len(s) :
                   /\ \A j \in b..i : ~IsSpace(s[j])
                   /\ (i = Len(s) \/ IsSpace(s[i + 1]))
       IN  << SubSeq(s, b, e) >> \o Fields(SubSeq(s, e + 1, Len(s)))

\* strings.Contains(s, c) for a one-character c
Contains(s, c) == \E i \in 1..Len(s) : s[i] = c

\* strings.TrimSuffix(s, c) for a one-character c
TrimSuffix(s, c) ==
  IF Len(s) > 0 /\ s[Len(s)] = c THEN SubSeq(s, 1, Len(s) - 1) ELSE s

\* value of a non-empty all-digit text
RECURSIVE DecValue(_)
DecValue(s) ==
  IF s = <<>> THEN 0
  ELSE 10 * DecValue(SubSeq(s, 1, Len(s) - 1)) + DigitVal(s[Len(s)])

AllDigits(s) == Len(s) > 0 /\ \A i \in 1..Len(s) : IsDigit(s[i])

\* the longest all-digit prefix of s
RECURSIVE LeadingDigits(_)
LeadingDigits(s) ==
  IF s = <<>> \/ ~IsDigit(Head(s)) THEN <<>>
  ELSE << Head(s) >> \o LeadingDigits(Tail(s))

\* Variant of ParseUint: the value parsed so far is kept on a syntax error.
ParseUintPrefix(s) == DecValue(LeadingDigits(s))

\* strconv.ParseUint(s, 10, 64) with the error discarded: no sign is
\* accepted; a syntax error yields 0.  (The texts of the model have at most
\* two digits, so the range-error branch is never entered.)
ParseUint(s) == IF AllDigits(s) THEN DecValue(s) ELSE 0

\* strconv.Atoi(s) with the error discarded: one optional sign, then digits;
\* a syntax error yields 0.
Atoi(s) ==
  IF Len(s) > 0 /\ s[1] \in {"+", "-"}
  THEN IF AllDigits(Tail(s))
       THEN (IF s[1] = "-" THEN 0 - DecValue(Tail(s)) ELSE DecValue(Tail(s)))
       ELSE 0
  ELSE IF AllDigits(s) THEN DecValue(s) ELSE 0

\* strconv.Itoa(i) for i >= 0
RECURSIVE Itoa(_)
Itoa(i) ==
  IF i < 10 THEN << Digits[i + 1] >>
  ELSE Itoa(i \div 10) \o << Digits[(i % 10) + 1] >>

\* Variant of SortStrings: the lines are left in input order.
SortStringsUnsorted(s) == s

\* Variant of SortStrings: descending byte order.
RECURSIVE InsertDescending(_, _)
InsertDescending(s, x) ==
  IF s = <<>> THEN << x >>
  ELSE IF StrLess(Head(s), x) THEN << x >> \o s
  ELSE << Head(s) >> \o InsertDescending(Tail(s), x)

RECURSIVE SortStringsDescending(_)
SortStringsDescending(s) ==
  IF s = <<>> THEN <<>>
  ELSE InsertDescending(SortStringsDescending(SubSeq(s, 1, Len(s) - 1)),
                        s[Len(s)])

\* sort.Strings: ascending byte order (insertion into a sorted prefix)
RECURSIVE InsertSorted(_, _)
InsertSorted(s, x) ==
  IF s = <<>> THEN << x >>
  ELSE IF StrLess(x, Head(s)) THEN << x >> \o s
  ELSE << Head(s) >> \o InsertSorted(Tail(s), x)

RECURSIVE SortStrings(_)
SortStrings(s) ==
  IF s = <<>> THEN <<>>
  ELSE InsertSorted(SortStrings(SubSeq(s, 1, Len(s) - 1)), s[Len(s)])

\* RemoveDuplicates: adjacent equal lines collapse to one and empty lines
\* (the piece after the final newline) are dropped.
RECURSIVE RemoveDuplicates(_)
RemoveDuplicates(s) ==
  IF s = <<>> THEN <<>>
  ELSE LET rest == RemoveDuplicates(Tail(s))
       IN  IF Head(s) = <<>> THEN rest
           ELSE IF Len(s) > 1 /\ s[2] = Head(s) THEN rest
           ELSE << Head(s) >> \o rest

\* ------------------------------------------------------------------------
\* NodeMetrics and the decoding of one line (body of the loop of
\* ParseNodeMetrics)
\* ------------------------------------------------------------------------
NullGres == << "(", "n", "u", "l", "l", ")" >>

NAText == << "N", "/", "A" >>

\* Variant of NewNodeMetrics: the positional literal sets hasGPU.
NewNodeMetricsWithGpu ==
  [ cpuAlloc |-> 0, cpuIdle |-> 0, cpuOther |-> 0, cpuTotal |-> 0,
    memAlloc |-> 0, memTotal |-> 0, gpuAlloc |-> 0,
    hasGPU |-> TRUE, gpuType |-> <<>>, gpuIndex |-> <<>>,
    nodeStatus |-> <<>> ]

\* &NodeMetrics{0, 0, 0, 0, 0, 0, 0, false, "", nil, ""}
NewNodeMetrics ==
  [ cpuAlloc |-> 0, cpuIdle |-> 0, cpuOther |-> 0, cpuTotal |-> 0,
    memAlloc |-> 0, memTotal |-> 0, gpuAlloc |-> 0,
    hasGPU |-> FALSE, gpuType |-> <<>>, gpuIndex |-> <<>>,
    nodeStatus |-> <<>> ]

\* make([]int, n)
MakeInts(n) == [ i \in 1..n |-> 0 ]

\* Outcome of a step that may index out of range: ok = FALSE is the Go
\* run-time panic, v the value otherwise.
Done(v) == [ ok |-> TRUE, v |-> v ]

Panicked(v) == [ ok |-> FALSE, v |-> v ]

\* Variant of MarkRange: the end of the range is excluded (i < end).
RECURSIVE MarkRangeExclusive(_, _, _)
MarkRangeExclusive(bm, i, end) ==
  IF i >= end THEN Done(bm)
  ELSE IF i < 0 \/ i >= Len(bm) THEN Panicked(bm)
  ELSE MarkRangeExclusive([bm EXCEPT ![i + 1] = 1], i + 1, end)

\* for i := start; i <= end; i++ { gpuIndex[i] = 1 }   (i is 0-based)
RECURSIVE MarkRange(_, _, _)
MarkRange(bm, i, end) ==
  IF i > end THEN Done(bm)
  ELSE IF i < 0 \/ i >= Len(bm) THEN Panicked(bm)
  ELSE MarkRange([bm EXCEPT ![i + 1] = 1], i + 1, end)

\* gpuIndex[num] = 1
MarkSingle(bm, num) ==
  IF num < 0 \/ num >= Len(bm) THEN Panicked(bm)
  ELSE Done([bm EXCEPT ![num + 1] = 1])

\* one token of the index list: a range if it contains "-", else a single
MarkPart(bm, part) ==
  IF Contains(part, "-")
  THEN LET bounds == Split(part, "-")
       IN  MarkRange(bm, Atoi(bounds[1]), Atoi(bounds[2]))
  ELSE MarkSingle(bm, Atoi(part))

\* for _, part := range strings.Split(index_list, ",")
RECURSIVE MarkParts(_, _)
MarkParts(bm, parts) ==
  IF parts = <<>> THEN Done(bm)
  ELSE LET r == MarkPart(bm, Head(parts))
       IN  IF r.ok THEN MarkParts(r.v, Tail(parts)) ELSE r

\* the test that decides whether the node has a GPU
HasGpu(gpuTotalStr, gpuAllocStr) == gpuTotalStr # NullGres

\* the GPU block of the loop body
DecodeGpu(rec, gpuTotalStr, gpuAllocStr) ==
  LET gpu_str  == Split(gpuAllocStr, "(")
      usedGPUs == Split(gpu_str[1], ":")
      total    == Split(gpuTotalStr, ":")
      idxParts == Split(TrimSuffix(gpu_str[2], ")"), ":")
  IN  IF Len(usedGPUs) < 3 \/ Len(total) < 3 \/ Len(gpu_str) < 2
      THEN Panicked(rec)
      ELSE IF Len(idxParts) < 2 THEN Panicked(rec)
      ELSE LET index_list == idxParts[2]
               num_gpus   == ParseUint(total[3])
               r0 == [rec EXCEPT !.hasGPU = TRUE,
                                 !.gpuType = usedGPUs[2],
                                 !.gpuAlloc = ParseUint(usedGPUs[3]),
                                 !.gpuIndex = MakeInts(num_gpus)]
               m  == IF index_list # NAText
                     THEN MarkParts(r0.gpuIndex, Split(index_list, ","))
                     ELSE Done(r0.gpuIndex)
           IN  [ ok |-> m.ok, v |-> [r0 EXCEPT !.gpuIndex = m.v] ]

\* Variant of DecodeCpu: idle and other are taken from each other's place.
DecodeCpuSwapped(rec, cpuInfo) ==
  [rec EXCEPT !.cpuAlloc = ParseUint(cpuInfo[1]),
              !.cpuIdle  = ParseUint(cpuInfo[3]),
              !.cpuOther = ParseUint(cpuInfo[2]),
              !.cpuTotal = ParseUint(cpuInfo[4])]

\* the CPU block of the loop body
DecodeCpu(rec, cpuInfo) ==
  [rec EXCEPT !.cpuAlloc = ParseUint(cpuInfo[1]),
              !.cpuIdle  = ParseUint(cpuInfo[2]),
              !.cpuOther = ParseUint(cpuInfo[3]),
              !.cpuTotal = ParseUint(cpuInfo[4])]

\* One iteration of the loop over linesUniq: the node name and the record
\* stored under it, or a panic when a field or sub-field is missing or a
\* GPU index is outside the bitmap.
DecodeLine(line) ==
  LET node == Fields(line)
  IN  IF Len(node) < 7 THEN [ ok |-> FALSE, name |-> <<>>, rec |-> NewNodeMetrics ]
      ELSE LET cpuInfo == Split(node[4], "/")
               r1 == [NewNodeMetrics EXCEPT !.nodeStatus = node[5],
                                            !.memAlloc = ParseUint(node[2]),
                                            !.memTotal = ParseUint(node[3])]
           IN  IF Len(cpuInfo) < 4
               THEN [ ok |-> FALSE, name |-> node[1], rec |-> r1 ]
               ELSE LET r2 == DecodeCpu(r1, cpuInfo)
                        g  == IF HasGpu(node[6], node[7])
                              THEN DecodeGpu(r2, node[6], node[7])
                              ELSE Done(r2)
                    IN  [ ok |-> g.ok, name |-> node[1], rec |-> g.v ]

\* ------------------------------------------------------------------------
\* The rows the status command reports, and their text
\* ------------------------------------------------------------------------
\* A numeric column: an integer, or text that is not an integer.
Num(n) == [ int |-> TRUE, n |-> n, s |-> <<>> ]

Junk(s) == [ int |-> FALSE, n |-> 0, s |-> s ]

\* A token of the index-spec: a single index or an inclusive range.
Single(n) == [ range |-> FALSE, lo |-> n, hi |-> n ]

Span(lo, hi) == [ range |-> TRUE, lo |-> lo, hi |-> hi ]

NoIdx == [ na |-> TRUE, toks |-> <<>> ]

Idx(toks) == [ na |-> FALSE, toks |-> toks ]

GpuText == << "g", "p", "u", ":" >>

IdxText == << "(", "I", "D", "X", ":" >>

RenderTok(t) == IF t.int THEN Itoa(t.n) ELSE t.s

RECURSIVE Join(_, _)
Join(parts, sep) ==
  IF parts = <<>> THEN <<>>
  ELSE IF Len(parts) = 1 THEN parts[1]
  ELSE parts[1] \o sep \o Join(Tail(parts), sep)

RenderIdxTok(t) ==
  IF t.range THEN Itoa(t.lo) \o << "-" >> \o Itoa(t.hi) ELSE Itoa(t.lo)

RenderIdx(ix) ==
  IF ix.na THEN NAText
  ELSE Join([ i \in 1..Len(ix.toks) |-> RenderIdxTok(ix.toks[i]) ], << "," >>)

\* column Gres: gpu:<type>:<total>, or (null) for a node without GPUs
RenderGres(d) ==
  IF d.hasGres THEN GpuText \o d.gresType \o << ":" >> \o Itoa(d.gresTotal)
  ELSE NullGres

\* column GresUsed: gpu:<type>:<count>(IDX:<index-spec>)
RenderUsed(d) ==
  IF d.usedRaw # <<>> THEN d.usedRaw
  ELSE GpuText \o d.usedType \o << ":" >> \o RenderTok(d.usedCount)
         \o IdxText \o RenderIdx(d.idx) \o << ")" >>

Columns(d) ==
  << d.name, RenderTok(d.memAlloc), RenderTok(d.memTotal),
     Join([ i \in 1..Len(d.cpu) |-> RenderTok(d.cpu[i]) ], << "/" >>),
     d.status, RenderGres(d), RenderUsed(d) >>

\* one row of output: the first d.ncols columns, blank-separated (padded
\* with a second blank and a trailing blank when d.wide)
RenderLine(d) ==
  IF d.wide
  THEN Join(SubSeq(Columns(d), 1, d.ncols), << " ", " " >>) \o << " " >>
  ELSE Join(SubSeq(Columns(d), 1, d.ncols), << " " >>)

\* the bytes of the output: every row ends with a newline
RECURSIVE RenderOutput(_)
RenderOutput(rows) ==
  IF rows = <<>> THEN <<>>
  ELSE RenderLine(Head(rows)) \o << "\n" >> \o RenderOutput(Tail(rows))

\* A node without GPUs.
RowA ==
  [ name |-> << "a" >>, memAlloc |-> Num(1), memTotal |-> Num(12),
    cpu |-> << Num(1), Num(2), Num(0), Num(3) >>,
    status |-> << "i", "d", "l", "e" >>,
    hasGres |-> FALSE, gresType |-> <<>>, gresTotal |-> 0,
    usedRaw |-> NullGres, usedType |-> <<>>, usedCount |-> Num(0),
    idx |-> NoIdx, ncols |-> 7, wide |-> FALSE ]

\* A node with NumGpus GPUs of type k, none allocated.
RowB ==
  [ RowA EXCEPT !.name = << "b" >>, !.status = << "m", "i", "x" >>,
                !.cpu = << Num(2), Num(0), Num(1), Num(3) >>,
                !.hasGres = TRUE, !.gresType = << "k" >>,
                !.gresTotal = NumGpus, !.usedRaw = <<>>,
                !.usedType = << "k" >>, !.usedCount = Num(0) ]

WithIdx(k, toks) == [ RowB EXCEPT !.usedCount = Num(k), !.idx = Idx(toks) ]

\* Rows that occur beside any other row.
BasicRows ==
  { RowA,
    [ RowA EXCEPT !.memAlloc = Num(3), !.status = << "m", "i", "x" >> ],
    RowB }

\* Well-formed rows: every column present, integers where integers are
\* expected, GPU indices inside [0, NumGpus).
GoodRows ==
  { [ RowA EXCEPT !.usedRaw = GpuText \o << "k", ":", "1" >> \o IdxText
                                \o << "0", ")" >> ],
    [ RowA EXCEPT !.wide = TRUE ],
    WithIdx(1, << Single(0) >>),
    [ WithIdx(1, << Single(1) >>) EXCEPT !.name = << "a" >> ],
    WithIdx(2, << Single(0), Single(NumGpus - 1) >>),
    WithIdx(2, << Span(NumGpus - 2, NumGpus - 1) >>),
    WithIdx(NumGpus, << Span(0, NumGpus - 1) >>),
    WithIdx(NumGpus, << Single(NumGpus - 1), Span(0, 1) >>),
    WithIdx(2, << Span(0, 1), Single(1) >>),
    WithIdx(0, << Span(NumGpus - 1, 1) >>),
    [ WithIdx(1, << Single(1) >>) EXCEPT !.usedType = << "m" >>,
                                         !.wide = TRUE ] }

\* Rows with non-integer text in a numeric column.
JunkRows ==
  { [ RowA EXCEPT !.memAlloc = Junk(<< "1", "x" >>) ],
    [ RowA EXCEPT !.memTotal = Junk(<< "+", "2" >>) ],
    [ RowB EXCEPT !.cpu = << Junk(<< "x" >>), Num(0), Junk(<< "2", "-" >>),
                             Num(3) >> ],
    [ RowB EXCEPT !.cpu = << Num(2), Junk(<< "1", "x" >>), Num(1),
                             Junk(<< "-", "3" >>) >> ],
    [ WithIdx(1, << Single(0) >>) EXCEPT !.usedCount = Junk(<< "1", "x" >>) ] }

\* Malformed rows: a column missing, a CPU sub-field missing, a GPU index
\* outside [0, NumGpus).
MalformedRows ==
  { [ RowA EXCEPT !.ncols = 6 ],
    [ RowB EXCEPT !.ncols = 1 ],
    [ RowA EXCEPT !.cpu = << Num(1), Num(2), Num(3) >> ],
    WithIdx(1, << Single(NumGpus) >>),
    WithIdx(2, << Single(0), Span(NumGpus - 1, NumGpus) >>) }

SpecialRows == GoodRows \cup JunkRows \cup MalformedRows

SeqsUpTo(S, n) == UNION { [ 1..k -> S ] : k \in 0..n }

\* The outputs of the status command: up to MaxLines rows.
Outputs == UNION { SeqsUpTo(BasicRows \cup {r}, MaxLines) : r \in SpecialRows }

\* ------------------------------------------------------------------------
\* State
\* ------------------------------------------------------------------------
VARIABLES
  pc,         \* position of the collector: idle, parse, loop, emit;
              \* fatal (log.Fatal) and panic end the process
  cycle,      \* number of scrape cycles started
  rows,       \* the rows the status command reported in this cycle
  out,        \* NodeData: the bytes of cmd.Output()
  err,        \* NodeData: cmd.Output() returned an error
  nodes,      \* ParseNodeMetrics: the map from node name to NodeMetrics
  linesUniq,  \* ParseNodeMetrics: the sorted lines without duplicates
  idx,        \* ParseNodeMetrics: position of the loop in linesUniq
  pending,    \* Collect: the keys of nodes the range loop has not visited
  ch,         \* Collect: the observations sent in this cycle
  published   \* the node names observed in the cycles that have ended

vars ==
  << pc, cycle, rows, out, err, nodes, linesUniq, idx, pending, ch,
     published >>

\* Variant of MakeMap: the map of the previous invocation is reused.
MakeMapReused(old) == old

\* make(map[string]*NodeMetrics): a new, empty map whatever the previous
\* invocation left behind
MakeMap(old) == << >>

\* nodes[nodeName] = rec
Put(m, name, rec) ==
  [ n \in (DOMAIN m) \cup {name} |-> IF n = name THEN rec ELSE m[n] ]

\* Variant of NodeDataNext: the error of cmd.Output() is ignored.
NodeDataNextIgnoringError(e) == "parse"

\* NodeData after cmd.Output(): log.Fatal on an error, else the output is
\* handed to ParseNodeMetrics
NodeDataNext(e) == IF e THEN "fatal" ELSE "parse"

\* the six observations labeled (node, status)
CpuMemObservations(node, rec) ==
  LET labels == << node, rec.nodeStatus >>
  IN  << [ metric |-> "cpu_alloc", labels |-> labels, value |-> rec.cpuAlloc ],
         [ metric |-> "cpu_idle",  labels |-> labels, value |-> rec.cpuIdle ],
         [ metric |-> "cpu_other", labels |-> labels, value |-> rec.cpuOther ],
         [ metric |-> "cpu_total", labels |-> labels, value |-> rec.cpuTotal ],
         [ metric |-> "mem_alloc", labels |-> labels, value |-> rec.memAlloc ],
         [ metric |-> "mem_total", labels |-> labels, value |-> rec.memTotal ] >>

\* Variant of GpuObservations: only the allocated indices are reported.
GpuObservationsAllocatedOnly(node, rec) ==
  SelectSeq([ i \in 1..Len(rec.gpuIndex) |->
                [ metric |-> "gpu_alloc",
                  labels |-> << node, rec.gpuType, Itoa(i - 1) >>,
                  value  |-> rec.gpuIndex[i] ] ],
            LAMBDA o : o.value = 1)

\* for i := range gpuIndex: one observation labeled (node, type, Itoa(i))
GpuObservations(node, rec) ==
  [ i \in 1..Len(rec.gpuIndex) |->
      [ metric |-> "gpu_alloc",
        labels |-> << node, rec.gpuType, Itoa(i - 1) >>,
        value  |-> rec.gpuIndex[i] ] ]

\* body of the range loop of Collect for one key of the map
NodeObservations(node, rec) ==
  CpuMemObservations(node, rec)
    \o (IF rec.hasGPU THEN GpuObservations(node, rec) ELSE << >>)

Init ==
  /\ pc = "idle"
  /\ cycle = 0
  /\ rows = << >>
  /\ out = << >>
  /\ err = FALSE
  /\ nodes = << >>
  /\ linesUniq = << >>
  /\ idx = 1
  /\ pending = {}
  /\ ch = << >>
  /\ published = {}

\* ------------------------------------------------------------------------
\* Actions
\* ------------------------------------------------------------------------
\* Collect is entered and calls NodeGetMetrics, which calls NodeData: the
\* status command reports some rows and succeeds or fails.
NodeData ==
  /\ pc = "idle"
  /\ cycle < MaxCycles
  /\ \E rs \in Outputs, e \in BOOLEAN :
       /\ rows' = rs
       /\ out' = RenderOutput(rs)
       /\ err' = e
       /\ pc' = NodeDataNext(e)
  /\ cycle' = cycle + 1
  /\ UNCHANGED << nodes, linesUniq, idx, pending, ch, published >>

\* ParseNodeMetrics up to the loop: new map, split, sort, RemoveDuplicates.
ParseBegin ==
  /\ pc = "parse"
  /\ nodes' = MakeMap(nodes)
  /\ linesUniq' = RemoveDuplicates(SortStrings(Split(out, "\n")))
  /\ idx' = 1
  /\ pc' = "loop"
  /\ UNCHANGED << cycle, rows, out, err, pending, ch, published >>

\* One iteration of the loop over linesUniq.  An index out of range is a
\* run-time panic: nothing recovers it, the process ends and the partly
\* filled map is never seen.
ParseLine ==
  /\ pc = "loop"
  /\ idx <= Len(linesUniq)
  /\ LET r == DecodeLine(linesUniq[idx])
     IN  IF r.ok
         THEN /\ nodes' = Put(nodes, r.name, r.rec)
              /\ idx' = idx + 1
              /\ pc' = pc
         ELSE /\ pc' = "panic"
              /\ UNCHANGED << nodes, idx >>
  /\ UNCHANGED << cycle, rows, out, err, linesUniq, pending, ch, published >>

\* ParseNodeMetrics returns the map to Collect.
ParseReturn ==
  /\ pc = "loop"
  /\ idx > Len(linesUniq)
  /\ pc' = "emit"
  /\ pending' = DOMAIN nodes
  /\ UNCHANGED << cycle, rows, out, err, nodes, linesUniq, idx, ch, published >>

\* One iteration of the range loop of Collect; the order in which a Go map
\* is ranged over is not specified.
EmitNode ==
  /\ pc = "emit"
  /\ \E node \in pending :
       /\ ch' = ch \o NodeObservations(node, nodes[node])
       /\ pending' = pending \ {node}
  /\ UNCHANGED << pc, cycle, rows, out, err, nodes, linesUniq, idx, published >>

\* Collect returns; its locals and the channel of the scrape are gone.  The
\* map is kept as the garbage the next invocation could find.
CollectReturn ==
  /\ pc = "emit"
  /\ pending = {}
  /\ pc' = "idle"
  /\ rows' = << >>
  /\ out' = << >>
  /\ linesUniq' = << >>
  /\ idx' = 1
  /\ ch' = << >>
  /\ published' = published \cup { ch[i].labels[1] : i \in 1..Len(ch) }
  /\ UNCHANGED << cycle, err, nodes, pending >>

Next ==
  \/ NodeData
  \/ ParseBegin
  \/ ParseLine
  \/ ParseReturn
  \/ EmitNode
  \/ CollectReturn

Spec == Init /\ [][Next]_vars

\* ------------------------------------------------------------------------
\* What the rows of a cycle say, independently of the text
\* ------------------------------------------------------------------------
Val(t) == IF t.int THEN t.n ELSE 0

\* index i (0-based) is named by some token of the index-spec
Named(d, i) ==
  /\ ~d.idx.na
  /\ \E k \in 1..Len(d.idx.toks) :
       d.idx.toks[k].lo <= i /\ i <= d.idx.toks[k].hi

BitmapOf(d) == [ i \in 1..d.gresTotal |-> IF Named(d, i - 1) THEN 1 ELSE 0 ]

\* every numeric column of the row is an integer
AllInts(d) ==
  /\ d.memAlloc.int /\ d.memTotal.int /\ d.usedCount.int
  /\ \A i \in 1..Len(d.cpu) : d.cpu[i].int

\* the three kinds of malformed row
TooFewFields(d) == d.ncols < 7

TooFewCpu(d) == Len(d.cpu) < 4

IndexOutOfRange(d) ==
  /\ d.hasGres
  /\ ~d.idx.na
  /\ \E k \in 1..Len(d.idx.toks) :
       LET t == d.idx.toks[k]
       IN  t.lo <= t.hi /\ (t.lo < 0 \/ t.hi >= d.gresTotal)

Malformed(d) == TooFewFields(d) \/ TooFewCpu(d) \/ IndexOutOfRange(d)

WellFormed(d) == ~Malformed(d) /\ AllInts(d)

\* the record a row that is not malformed stands for
RecordOf(d) ==
  [ cpuAlloc |-> Val(d.cpu[1]), cpuIdle |-> Val(d.cpu[2]),
    cpuOther |-> Val(d.cpu[3]), cpuTotal |-> Val(d.cpu[4]),
    memAlloc |-> Val(d.memAlloc), memTotal |-> Val(d.memTotal),
    gpuAlloc |-> IF d.hasGres THEN Val(d.usedCount) ELSE 0,
    hasGPU |-> d.hasGres,
    gpuType |-> IF d.hasGres THEN d.usedType ELSE << >>,
    gpuIndex |-> IF d.hasGres THEN BitmapOf(d) ELSE << >>,
    nodeStatus |-> d.status ]

NamesOf(rs) == { rs[i].name : i \in 1..Len(rs) }

\* among the rows of one node, the one whose line is the greatest in byte
\* order; it depends on the set of rows only
Survivor(rs, n) ==
  CHOOSE d \in Range(rs) :
    /\ d.name = n
    /\ \A e \in Range(rs) :
         e.name = n => ~StrLess(RenderLine(d), RenderLine(e))

\* a line has been decoded in the current parse pass
Decoded == pc \in {"loop", "emit", "panic"} /\ idx > 1

\* the rows whose line was decoded last
LastRows == { d \in Range(rows) : RenderLine(d) = linesUniq[idx - 1] }

\* the observations of the cycle about node n
ObsOf(n) == SelectSeq(ch, LAMBDA o : o.labels[1] = n)

ObsOfMetric(n, m) == SelectSeq(ch, LAMBDA o : o.labels[1] = n /\ o.metric = m)

GpuObsOf(n) == ObsOfMetric(n, "gpu_alloc")

\* ------------------------------------------------------------------------
\* C1: for a line with total-GRES gpu:<type>:<N> and allocated-GRES
\* gpu:<type>:<k>(IDX:<index-spec>), the stored bitmap has length N and
\* entry i is 1 exactly when the index-spec is not N/A and some token (a
\* single i, or a range around i) names i, whatever the order of the tokens.
\* ------------------------------------------------------------------------
C1_BitmapFromIndexSpec ==
  Decoded =>
    \A d \in LastRows :
      d.hasGres =>
        /\ d.name \in DOMAIN nodes
        /\ Len(nodes[d.name].gpuIndex) = d.gresTotal
        /\ \A i \in 0..(d.gresTotal - 1) :
             nodes[d.name].gpuIndex[i + 1] = (IF Named(d, i) THEN 1 ELSE 0)

\* an unsorted list of a single and a range has been expanded
C1_Witness ==
  /\ Decoded
  /\ \E d \in LastRows :
       /\ d.hasGres /\ ~d.idx.na
       /\ Len(d.idx.toks) = 2
       /\ ~d.idx.toks[1].range /\ d.idx.toks[2].range
       /\ d.idx.toks[1].lo > d.idx.toks[2].hi
       /\ nodes[d.name].gpuIndex = BitmapOf(d)
       /\ \E i \in 1..d.gresTotal : nodes[d.name].gpuIndex[i] = 1

\* ------------------------------------------------------------------------
\* C2: the returned map has exactly one entry per distinct node name of the
\* input; identical lines give one entry, lines of one node that differ give
\* one entry too, holding the values of a survivor that depends on the set
\* of lines and not on their order in the input.
\* ------------------------------------------------------------------------
C2_OneEntryPerName ==
  pc = "emit" =>
    /\ DOMAIN nodes = NamesOf(rows)
    /\ Cardinality(DOMAIN nodes) = Cardinality(NamesOf(rows))
    /\ \A n \in DOMAIN nodes : nodes[n] = RecordOf(Survivor(rows, n))

\* two differing lines of one node, the greater one first in the input,
\* have collapsed into the entry of the greater one
C2_Witness ==
  /\ pc = "emit"
  /\ Len(rows) >= 2
  /\ rows[1].name = rows[2].name
  /\ StrLess(RenderLine(rows[2]), RenderLine(rows[1]))
  /\ RecordOf(rows[1]) # RecordOf(rows[2])
  /\ Cardinality(DOMAIN nodes) = 1
  /\ nodes[rows[1].name] = RecordOf(rows[1])

\* ------------------------------------------------------------------------
\* C3: a line whose total-GRES descriptor is (null) yields, whatever its
\* seventh field, hasGPU = false, an empty gpuType, gpuAlloc 0 and a bitmap
\* of length 0, and Collect emits no gpu_alloc observation for that node.
\* ------------------------------------------------------------------------
C3_NullGresNoGpu ==
  /\ Decoded =>
       \A d \in LastRows :
         ~d.hasGres =>
           /\ d.name \in DOMAIN nodes
           /\ nodes[d.name].hasGPU = FALSE
           /\ nodes[d.name].gpuType = << >>
           /\ nodes[d.name].gpuAlloc = 0
           /\ Len(nodes[d.name].gpuIndex) = 0
  /\ pc = "emit" =>
       \A n \in NamesOf(rows) :
         ~Survivor(rows, n).hasGres => GpuObsOf(n) = << >>

\* a (null) node whose seventh field is a full GPU descriptor has been
\* decoded and emitted without any gpu_alloc observation
C3_Witness ==
  /\ pc = "emit" /\ pending = {}
  /\ \E d \in LastRows :
       /\ ~d.hasGres
       /\ Contains(d.usedRaw, "I")
       /\ ~nodes[d.name].hasGPU
       /\ Len(ObsOf(d.name)) = 6

\* ------------------------------------------------------------------------
\* C4: for a well-formed 7-field line the record stored under the node name
\* has memAlloc and memTotal of fields two and three, the four CPU values of
\* field four in source order, the status of field five and, with a GPU,
\* gpuType and gpuAlloc from the allocated-GRES descriptor and the bitmap
\* length from the total-GRES descriptor.
\* ------------------------------------------------------------------------
C4_FieldsCopied ==
  Decoded =>
    \A d \in LastRows :
      WellFormed(d) =>
        /\ d.name \in DOMAIN nodes
        /\ LET r == nodes[d.name]
           IN  /\ r.memAlloc = d.memAlloc.n /\ r.memTotal = d.memTotal.n
               /\ r.cpuAlloc = d.cpu[1].n /\ r.cpuIdle = d.cpu[2].n
               /\ r.cpuOther = d.cpu[3].n /\ r.cpuTotal = d.cpu[4].n
               /\ r.nodeStatus = d.status
               /\ r.hasGPU = d.hasGres
               /\ d.hasGres =>
                    /\ r.gpuType = d.usedType
                    /\ r.gpuAlloc = d.usedCount.n
                    /\ Len(r.gpuIndex) = d.gresTotal

\* a GPU line whose two descriptors carry different types and counts
C4_Witness ==
  /\ Decoded
  /\ \E d \in LastRows :
       /\ WellFormed(d) /\ d.hasGres
       /\ d.usedType # d.gresType
       /\ d.usedCount.n # d.gresTotal
       /\ nodes[d.name].gpuType = d.usedType
       /\ nodes[d.name].cpuAlloc # nodes[d.name].cpuIdle
       /\ Len(nodes[d.name].gpuIndex) = d.gresTotal

\* ------------------------------------------------------------------------
\* C5: in a Collect pass every visited record yields exactly the six
\* observations cpu_alloc .. mem_total labeled (node, status) with the
\* record's fields and, iff hasGPU, exactly one gpu_alloc observation per
\* bitmap index i labeled (node, gpuType, text of i) carrying bitmap entry i:
\* 6 + length(bitmap) observations with a GPU, 6 without; nothing else.
\* ------------------------------------------------------------------------
C5_ObservationsPerRecord ==
  pc = "emit" =>
    /\ \A i \in 1..Len(ch) : ch[i].labels[1] \in (DOMAIN nodes) \ pending
    /\ \A n \in pending : ObsOf(n) = << >>
    /\ \A n \in (DOMAIN nodes) \ pending :
         LET r == nodes[n]
             one(m, v) ==
               ObsOfMetric(n, m)
                 = << [ metric |-> m, labels |-> << n, r.nodeStatus >>,
                        value |-> v ] >>
         IN  /\ one("cpu_alloc", r.cpuAlloc) /\ one("cpu_idle", r.cpuIdle)
             /\ one("cpu_other", r.cpuOther) /\ one("cpu_total", r.cpuTotal)
             /\ one("mem_alloc", r.memAlloc) /\ one("mem_total", r.memTotal)
             /\ Len(GpuObsOf(n)) = (IF r.hasGPU THEN Len(r.gpuIndex) ELSE 0)
             /\ Len(ObsOf(n)) = 6 + Len(GpuObsOf(n))
             /\ r.hasGPU =>
                  \A i \in 0..(Len(r.gpuIndex) - 1) :
                    \E k \in 1..Len(GpuObsOf(n)) :
                      LET o == GpuObsOf(n)[k]
                      IN  /\ o.labels[2] = r.gpuType
                          /\ AllDigits(o.labels[3])
                          /\ DecValue(o.labels[3]) = i
                          /\ o.value = r.gpuIndex[i + 1]
                          /\ o.value \in {0, 1}

\* a pass over a GPU node with free and allocated devices and a node
\* without GPUs is complete
C5_Witness ==
  /\ pc = "emit" /\ pending = {}
  /\ \E n, m \in DOMAIN nodes :
       /\ nodes[n].hasGPU
       /\ \E i, j \in 1..Len(nodes[n].gpuIndex) :
            nodes[n].gpuIndex[i] = 0 /\ nodes[n].gpuIndex[j] = 1
       /\ Len(ObsOf(n)) = 6 + Len(nodes[n].gpuIndex)
       /\ ~nodes[m].hasGPU
       /\ Len(ObsOf(m)) = 6
       /\ Len(ch) = 12 + Len(nodes[n].gpuIndex)

\* ------------------------------------------------------------------------
\* C6: in a cycle in which the status command fails, the cycle is aborted
\* fatally before any observation is sent: nothing is published for it.
\* ------------------------------------------------------------------------
C6_FailureIsFatal == err => (pc = "fatal" /\ ch = << >>)

\* the command fails, with some output, in a cycle after a successful one
C6_Witness ==
  /\ err /\ pc = "fatal"
  /\ cycle > 1
  /\ rows # << >>
  /\ published # {}
  /\ ch = << >>

\* ------------------------------------------------------------------------
\* C7: a malformed line (fewer than 7 fields, fewer than four CPU
\* sub-fields, a GPU index outside [0, total)) does not abort the parse:
\* a map is still returned and the records of the other lines are what they
\* are without the malformed line.
\* ------------------------------------------------------------------------
C7_MalformedLineDegrades ==
  (\E k \in 1..Len(rows) : Malformed(rows[k])) =>
    /\ pc # "panic"
    /\ pc = "emit" =>
         \A n \in NamesOf(rows) :
           ~Malformed(Survivor(rows, n)) =>
             n \in DOMAIN nodes /\ nodes[n] = RecordOf(Survivor(rows, n))

\* ------------------------------------------------------------------------
\* C8: the map and the observations of a cycle are a function of that
\* cycle's output alone: the map is built anew, a node absent from the
\* current output has no entry and no observation even if an earlier cycle
\* had it, and no record changes once the parse pass has returned.
\* ------------------------------------------------------------------------
C8_FreshMapEveryCycle ==
  /\ [](pc = "emit" =>
         /\ DOMAIN nodes = NamesOf(rows)
         /\ \A n \in DOMAIN nodes : nodes[n] = RecordOf(Survivor(rows, n))
         /\ \A i \in 1..Len(ch) : ch[i].labels[1] \in NamesOf(rows))
  /\ [][pc = "emit" => nodes' = nodes]_vars

\* a later cycle has emitted everything and a node of an earlier cycle is
\* not among it
C8_Witness ==
  /\ pc = "emit" /\ pending = {}
  /\ cycle > 1
  /\ ch # << >>
  /\ \E n \in published : n \notin DOMAIN nodes /\ ObsOf(n) = << >>

\* ------------------------------------------------------------------------
\* C9: non-integer text in a numeric field (the two memory fields, the four
\* CPU sub-fields, the GPU allocated count) decodes to 0 without aborting;
\* the other fields of the record are those of the same line with an
\* integer in its place, and the records of the other nodes are unaffected.
\* ------------------------------------------------------------------------
\* the row with an integer in the place of every non-integer text
Seven(t) == IF t.int THEN t ELSE Num(7)

Fixed(d) ==
  [ d EXCEPT !.memAlloc = Seven(@), !.memTotal = Seven(@),
             !.usedCount = Seven(@),
             !.cpu = [ i \in 1..Len(@) |-> Seven(@[i]) ] ]

\* record r with 0 wherever the row has non-integer text
ZeroAtJunk(d, r) ==
  [ r EXCEPT !.memAlloc = IF d.memAlloc.int THEN @ ELSE 0,
             !.memTotal = IF d.memTotal.int THEN @ ELSE 0,
             !.cpuAlloc = IF d.cpu[1].int THEN @ ELSE 0,
             !.cpuIdle  = IF d.cpu[2].int THEN @ ELSE 0,
             !.cpuOther = IF d.cpu[3].int THEN @ ELSE 0,
             !.cpuTotal = IF d.cpu[4].int THEN @ ELSE 0,
             !.gpuAlloc = IF d.usedCount.int THEN @ ELSE 0 ]

C9_NonIntegerIsZero ==
  /\ Decoded =>
       \A d \in LastRows :
         (~AllInts(d) /\ ~Malformed(d)) =>
           /\ d.name \in DOMAIN nodes
           /\ DecodeLine(RenderLine(Fixed(d))).ok
           /\ nodes[d.name] =
                ZeroAtJunk(d, DecodeLine(RenderLine(Fixed(d))).rec)
  /\ pc = "emit" =>
       \A n \in DOMAIN nodes :
         AllInts(Survivor(rows, n)) => nodes[n] = RecordOf(Survivor(rows, n))

\* a pass over a line with a non-integer GPU allocated count and a line of
\* another node has returned
C9_Witness ==
  /\ pc = "emit"
  /\ \E d \in Range(rows) :
       /\ ~d.usedCount.int /\ d.hasGres
       /\ d.name \in DOMAIN nodes
       /\ nodes[d.name].gpuAlloc = 0
       /\ nodes[d.name].hasGPU
       /\ nodes[d.name].gpuIndex = BitmapOf(d)
       /\ \E n \in DOMAIN nodes : n # d.name /\ nodes[n].memTotal > 0

\* ------------------------------------------------------------------------
\* C10: last-seen-wins cannot occur: in one parse pass each node name is
\* decoded from exactly one line, so the map entry of a name is written once
\* and never replaced by the record of a later line with the same name.
\* ------------------------------------------------------------------------
\* the loop decodes line idx and stores its record
Stores == pc = "loop" /\ idx' = idx + 1

C10_EntryWrittenOnce ==
  [][Stores => Fields(linesUniq[idx])[1] \notin DOMAIN nodes]_vars

\* C10 as amended: each distinct line is decoded exactly once, in ascending
\* byte order; a name that occurs in several distinct lines is decoded once
\* per such line and each decode replaces the entry, which therefore ends as
\* that of the greatest line of the name (last-seen-wins in sorted order).
C10_DistinctLinesOnceLastWins ==
  [][Stores =>
       LET name == Fields(linesUniq[idx])[1]
       IN  /\ \A j \in 1..(idx - 1) : StrLess(linesUniq[j], linesUniq[idx])
           /\ nodes'[name] = DecodeLine(linesUniq[idx]).rec
           /\ name \in DOMAIN nodes =>
                \E j \in 1..(idx - 1) :
                  /\ Fields(linesUniq[j])[1] = name
                  /\ nodes[name] = DecodeLine(linesUniq[j]).rec]_vars

\* the entry of a node has been replaced by the record of a second line
C10_Witness ==
  /\ pc = "loop" /\ idx = 3
  /\ Fields(linesUniq[1])[1] = Fields(linesUniq[2])[1]
  /\ nodes[Fields(linesUniq[2])[1]] = DecodeLine(linesUniq[2]).rec
  /\ DecodeLine(linesUniq[2]).rec # DecodeLine(linesUniq[1]).rec

====
